---- MODULE Spec2Model ----
(***************************************************************************)
(* Model of the evaluation engine of src/lib/scoring.ts (v3.0, the second  *)
(* scoreDesign of the file): extractTargetSpec, computeQuality,            *)
(* computeSpecMatch, treeProportionFallback and scoreDesign.               *)
(*                                                                         *)
(* Numbers.  JavaScript doubles are modelled in fixed point: a score s is  *)
(* the integer s * SCALE.  Math.log and Math.exp are computed by integer   *)
(* series to about four decimal places.  NaN is the value NaN; every       *)
(* comparison with NaN is false and every arithmetic result that reads a   *)
(* NaN is NaN, as in IEEE-754.  round() rounds an exact half upward; a     *)
(* double that stands for a decimal half (0.565, 0.645) may lie a hair     *)
(* under it and round down, so on such ties the model can differ from the  *)
(* program by 0.01.                                                        *)
(***************************************************************************)
EXTENDS Integers, Sequences, FiniteSets, TLC

\* ------------------------------------------------------------------------
\* Fixed-point arithmetic
\* ------------------------------------------------------------------------

\* 1.0 in fixed point.
SCALE == 10000

\* ln 2 in fixed point.
LN2 == 6931

\* The IEEE-754 not-a-number, kept apart from every fixed-point value.
NaN == -77777777

IsNaN(x) == x = NaN

\* const x = v; ... : the value v is computed once and F reads it as x.
With(v, F(_)) == CHOOSE r \in {F(x) : x \in {v}} : TRUE

Abs(x) == IF x < 0 THEN -x ELSE x

Min(a, b) == IF a <= b THEN a ELSE b

Max(a, b) == IF a >= b THEN a ELSE b

\* Math.max(lo, x): NaN if an argument is NaN.
MathMax(lo, x) == IF IsNaN(x) \/ IsNaN(lo) THEN NaN ELSE Max(lo, x)

\* a / b of two plain numbers, as a fixed-point number (b # 0).
\* Integer division of TLA+ rounds toward minus infinity; the sign is
\* handled apart so that the quotient is rounded toward zero.
Div(a, b) ==
  LET q == (Abs(a) * SCALE) \div Abs(b)
  IN IF (a < 0) = (b < 0) THEN q ELSE -q

\* a * b of two fixed-point numbers.
Mul(a, b) == (a * b) \div SCALE

\* 2^k for k >= 0.
RECURSIVE Pow2(_)
Pow2(k) == IF k <= 0 THEN 1 ELSE 2 * Pow2(k - 1)

\* Range reduction for Math.log: the k with x / 2^k in [1, 2).
RECURSIVE Log2Floor(_)
Log2Floor(x) ==
  IF x >= 2 * SCALE THEN 1 + Log2Floor(x \div 2)
  ELSE IF x < SCALE THEN Log2Floor(2 * x) - 1
  ELSE 0

\* The series of Math.log is summed with one more decimal digit.
FINE == 10 * SCALE

LN2FINE == 69315

MulFine(a, b) == (a * b + FINE \div 2) \div FINE

\* 2 * atanh(y) = 2 (y + y^3/3 + y^5/5 + ...), y in [0, 1/3], in FINE units.
AtanhSeries(y) ==
  LET y2 == MulFine(y, y)
      y3 == MulFine(y, y2)
      y5 == MulFine(y3, y2)
      y7 == MulFine(y5, y2)
      y9 == MulFine(y7, y2)
  IN 2 * y + (2 * y3) \div 3 + (2 * y5) \div 5 + (2 * y7) \div 7 + (2 * y9) \div 9

\* Math.log(x) of a fixed-point x: NaN for x < 0.
\* (x = 0 would be -Infinity; no input of the model produces it.)
Ln(x) ==
  IF IsNaN(x) \/ x <= 0 THEN NaN
  ELSE With(Log2Floor(x), LAMBDA k :
         With(IF k >= 0 THEN (10 * x) \div Pow2(k) ELSE 10 * x * Pow2(-k), LAMBDA m :
           With(((m - FINE) * SCALE + (m + FINE) \div 20) \div ((m + FINE) \div 10), LAMBDA y :
             (k * LN2FINE + AtanhSeries(y) + 5) \div 10)))

\* e^r for a fixed-point r in [0, ln 2).
ExpSeries(r) ==
  LET r2 == Mul(r, r)
      r3 == Mul(r2, r)
      r4 == Mul(r3, r)
      r5 == Mul(r4, r)
      r6 == Mul(r5, r)
  IN SCALE + r + r2 \div 2 + r3 \div 6 + r4 \div 24 + r5 \div 120 + r6 \div 720

\* Math.exp(-z) of a fixed-point z >= 0; underflows to 0 as the double
\* does far below the resolution of the scores.
ExpNeg(z) ==
  IF IsNaN(z) THEN NaN
  ELSE With(z \div LN2, LAMBDA k :
         With(z % LN2, LAMBDA r :
           IF k >= 14 THEN 0
           ELSE (SCALE * SCALE) \div (ExpSeries(r) * Pow2(k))))

\* Math.exp(-c * dev * dev) for an integer c in {2, 3}.
Gauss(c, dev) ==
  IF IsNaN(dev) THEN NaN
  ELSE IF Abs(dev) > 3 * SCALE THEN 0
  ELSE With(c * Mul(Abs(dev), Abs(dev)), LAMBDA z : ExpNeg(z))

\* Math.log2(n) of a plain integer n >= 1.
Log2(n) == With(n * SCALE, LAMBDA x : (Ln(x) * SCALE) \div LN2)

\* round(n) == Math.round(n * 100) / 100 : to two decimals, halves up.
round(n) ==
  IF IsNaN(n) THEN NaN
  ELSE ((n + (SCALE \div 200)) \div (SCALE \div 100)) * (SCALE \div 100)

\* ------------------------------------------------------------------------
\* Inputs: DesignTree, prompt, geometry metrics
\* ------------------------------------------------------------------------

\* A DesignParameter without min and max.
Param(k, v, u) ==
  [key |-> k, value |-> v, unit |-> u, hasMin |-> FALSE, min |-> 0,
   hasMax |-> FALSE, max |-> 0, locked |-> FALSE]

\* A DesignParameter with min and max.
Bounded(k, v, u, lo, hi) ==
  [key |-> k, value |-> v, unit |-> u, hasMin |-> TRUE, min |-> lo,
   hasMax |-> TRUE, max |-> hi, locked |-> FALSE]

\* Object.values(tree.parameters): the parameters in insertion order.
ParamValues(tree) == tree.parameters

\* Object.keys(tree.nodes).length
NodeCount(tree) == Len(tree.nodes)

\* The prompt is the sequence of its words.  prompt.toLowerCase() maps the
\* words that carry capitals and leaves the others.
ToLower(t) ==
  CASE t = "Create" -> "create"
    [] t = "Gear" -> "gear"
    [] t = "MM" -> "mm"
    [] OTHER -> t

lowerOf(prompt) == [i \in 1..Len(prompt) |-> ToLower(prompt[i])]

\* The search words a (lower-case) word of the prompt contains as a
\* substring, besides itself: String.includes and an unanchored RegExp
\* alternative see them.
Substrings(t) ==
  {t} \cup
  (CASE t = "gears" -> {"gear"}
     [] t = "bearing" -> {"ring"}
     [] t = "mounting" -> {"mount"}
     [] t = "symmetrical" -> {"symmetric"}
     [] t = "ribbed" -> {"rib"}
     [] t = "grooved" -> {"groov"}
     [] t = "around" -> {"round"}
     [] OTHER -> {})

\* lower.includes(w) for some w of words; /w1|w2|.../.test(lower)
includesAny(lower, words) ==
  \E i \in 1..Len(lower) : Substrings(lower[i]) \cap words # {}

\* The words (\d+) and (\d+\.?\d*) match, with parseFloat / parseInt.
NumVal(t) ==
  CASE t = "0" -> 0
    [] t = "4" -> 4
    [] t = "5" -> 5
    [] t = "12" -> 12
    [] t = "20" -> 20
    [] t = "50" -> 50
    [] t = "60" -> 60
    [] t = "80" -> 80
    [] t = "100" -> 100
    [] t = "200" -> 200
    [] OTHER -> -1

IsNum(t) == NumVal(t) >= 0

\* One element of a pattern: a number (captured), or one word of a set;
\* opt marks the (?:...)? elements.
Num == [num |-> TRUE, accept |-> {}, opt |-> FALSE]

Word(ws) == [num |-> FALSE, accept |-> ws, opt |-> FALSE]

Maybe(ws) == [num |-> FALSE, accept |-> ws, opt |-> TRUE]

NoMatch == [found |-> FALSE, captured |-> FALSE, value |-> 0]

Accepts(e, t) == IF e.num THEN IsNum(t) ELSE t \in e.accept

\* The match of pat[j..] against the words from position i on, with the
\* capture made so far.
RECURSIVE MatchAt(_, _, _, _, _)
MatchAt(p, i, pat, j, cap) ==
  IF j > Len(pat) THEN cap
  ELSE LET e == pat[j]
       IN With(IF i <= Len(p) /\ Accepts(e, ToLower(p[i]))
               THEN MatchAt(p, i + 1, pat, j + 1,
                            IF e.num
                            THEN [found |-> TRUE, captured |-> TRUE, value |-> NumVal(p[i])]
                            ELSE cap)
               ELSE NoMatch,
               LAMBDA take :
                 IF take.found THEN take
                 ELSE IF e.opt THEN MatchAt(p, i, pat, j + 1, cap)
                 ELSE NoMatch)

\* prompt.match(regex): the leftmost match.
match(p, pat) ==
  LET start == [found |-> TRUE, captured |-> FALSE, value |-> 0]
      hits == {i \in 1..Len(p) : MatchAt(p, i, pat, 1, start).found}
  IN IF hits = {} THEN NoMatch
     ELSE MatchAt(p, CHOOSE i \in hits : \A j \in hits : i <= j, pat, 1, start)

\* ------------------------------------------------------------------------
\* extractTargetSpec
\* ------------------------------------------------------------------------

MM == {"mm"}

OfColon == {"of", ":"}

dimPatterns ==
  << [pat |-> <<Num, Word(MM), Word({"height", "tall", "high"})>>, key |-> "height"],
     [pat |-> <<Word({"height"}), Maybe(OfColon), Num, Word(MM)>>, key |-> "height"],
     [pat |-> <<Num, Word(MM), Word({"width", "wide"})>>, key |-> "width"],
     [pat |-> <<Word({"width"}), Maybe(OfColon), Num, Word(MM)>>, key |-> "width"],
     [pat |-> <<Num, Word(MM), Word({"diameter", "dia"})>>, key |-> "diameter"],
     [pat |-> <<Word({"diameter"}), Maybe(OfColon), Num, Word(MM)>>, key |-> "diameter"],
     [pat |-> <<Num, Word(MM), Word({"thick", "thickness"})>>, key |-> "thickness"],
     [pat |-> <<Word({"thickness"}), Maybe(OfColon), Num, Word(MM)>>, key |-> "thickness"],
     [pat |-> <<Num, Word(MM), Word({"depth", "deep"})>>, key |-> "depth"],
     [pat |-> <<Num, Word(MM), Word({"bore", "hole", "holes"})>>, key |-> "bore_diameter"] >>

\* A Record<string, number>: a function on the keys that were assigned.
EmptyRecord == [k \in {} |-> 0]

Assign(rec, k, v) == (k :> v) @@ rec

\* for (const p of dimPatterns) { const m = prompt.match(p.regex);
\*                                if (m) targetDims[p.key] = parseFloat(m[1]) }
RECURSIVE dimsFromPrompt(_, _, _)
dimsFromPrompt(prompt, i, acc) ==
  IF i > Len(dimPatterns) THEN acc
  ELSE With(match(prompt, dimPatterns[i].pat), LAMBDA m :
         With(IF m.found THEN Assign(acc, dimPatterns[i].key, m.value) ELSE acc,
              LAMBDA next : dimsFromPrompt(prompt, i + 1, next)))

\* dimsFromTree that keeps a value the prompt has supplied.
RECURSIVE dimsFromTree_textFirst(_, _, _)
dimsFromTree_textFirst(params, i, acc) ==
  IF i > Len(params) THEN acc
  ELSE With(IF (params[i].unit = "mm" \/ params[i].unit = "count")
               /\ params[i].key \notin DOMAIN acc
            THEN Assign(acc, params[i].key, params[i].value)
            ELSE acc,
            LAMBDA next : dimsFromTree_textFirst(params, i + 1, next))

\* for (const param of Object.values(tree.parameters))
\*   if (param.unit === 'mm' || param.unit === 'count') targetDims[param.key] = param.value
RECURSIVE dimsFromTree(_, _, _)
dimsFromTree(params, i, acc) ==
  IF i > Len(params) THEN acc
  ELSE With(IF params[i].unit = "mm" \/ params[i].unit = "count"
            THEN Assign(acc, params[i].key, params[i].value)
            ELSE acc,
            LAMBDA next : dimsFromTree(params, i + 1, next))

\* rec.k || next : the value under k when it is there and not 0, else next.
OrElse(rec, k, next) == IF k \in DOMAIN rec /\ rec[k] # 0 THEN rec[k] ELSE next

symmetryWords ==
  {"symmetric", "symmetrical", "centered", "balanced", "uniform", "round",
   "circular", "cylindrical", "radial"}

implicitSymmetry ==
  {"gear", "vase", "bottle", "cylinder", "sphere", "torus", "wheel", "disc",
   "ring", "flange", "bearing"}

featurePatterns ==
  << [pat |-> <<Num, Maybe({"vertical"}), Word({"rib", "ribs", "ribbed"})>>, name |-> "ribs", countGroup |-> TRUE],
     [pat |-> <<Word({"rib", "ribs"}), Maybe({"count"}), Num>>, name |-> "ribs", countGroup |-> TRUE],
     [pat |-> <<Num, Word({"teeth"})>>, name |-> "teeth", countGroup |-> TRUE],
     [pat |-> <<Word({"teeth"}), Num>>, name |-> "teeth", countGroup |-> TRUE],
     [pat |-> <<Num, Maybe({"mounting"}), Word({"hole", "holes"})>>, name |-> "holes", countGroup |-> TRUE],
     [pat |-> <<Word({"hole", "holes"}), Num>>, name |-> "holes", countGroup |-> TRUE],
     [pat |-> <<Word({"bore"})>>, name |-> "bore", countGroup |-> FALSE],
     [pat |-> <<Word({"fillet", "fillets", "filleted"})>>, name |-> "fillet", countGroup |-> FALSE],
     [pat |-> <<Word({"chamfer", "chamfers", "chamfered"})>>, name |-> "chamfer", countGroup |-> FALSE],
     [pat |-> <<Word({"slot", "slots"})>>, name |-> "slots", countGroup |-> FALSE],
     [pat |-> <<Word({"ventilation"})>>, name |-> "slots", countGroup |-> FALSE],
     [pat |-> <<Word({"cutout", "cutouts"})>>, name |-> "cutout", countGroup |-> FALSE],
     [pat |-> <<Word({"pattern", "patterns", "patterned"})>>, name |-> "pattern", countGroup |-> FALSE] >>

\* targetFeatures.includes(name)
Includes(seq, name) == \E i \in 1..Len(seq) : seq[i] = name

\* PushNew without the test.
PushNew_always(seq, name) == Append(seq, name)

\* if (!targetFeatures.includes(name)) targetFeatures.push(name)
PushNew(seq, name) == IF Includes(seq, name) THEN seq ELSE Append(seq, name)

\* The loop over featurePatterns; acc is [features, counts].
RECURSIVE featuresFromPrompt(_, _, _)
featuresFromPrompt(prompt, i, acc) ==
  IF i > Len(featurePatterns) THEN acc
  ELSE LET fp == featurePatterns[i]
       IN With(match(prompt, fp.pat), LAMBDA m :
            With(IF m.found
                 THEN [features |-> PushNew(acc.features, fp.name),
                       counts |-> IF fp.countGroup /\ m.captured
                                  THEN Assign(acc.counts, fp.name, m.value)
                                  ELSE acc.counts]
                 ELSE acc,
                 LAMBDA next : featuresFromPrompt(prompt, i + 1, next)))

\* The stems a parameter key contains: the RegExp tests on keys, and
\* key.toLowerCase().includes(...), see them.
KeyParts(k) ==
  CASE k = "height" -> {"height"}
    [] k = "width" -> {"width"}
    [] k = "diameter" -> {"diameter"}
    [] k = "thickness" -> {"thickness"}
    [] k = "depth" -> {"depth"}
    [] k = "outer_diameter" -> {"outer", "diameter"}
    [] k = "wall_thickness" -> {"thickness"}
    [] k = "teeth_count" -> {"teeth", "teet"}
    [] k = "teeth" -> {"teeth", "teet"}
    [] k = "rib_count" -> {"rib"}
    [] k = "ribs" -> {"rib", "ribs"}
    [] k = "hole_count" -> {"hole"}
    [] k = "segments" -> {"segment", "segm"}
    [] OTHER -> {}

KeyTest(k, stems) == KeyParts(k) \cap stems # {}

\* The loop over the tree parameters that name a count.
RECURSIVE featuresFromTree(_, _, _)
featuresFromTree(params, i, acc) ==
  IF i > Len(params) THEN acc
  ELSE LET k == params[i].key
           name == IF KeyTest(k, {"rib"}) THEN "ribs"
                   ELSE IF KeyTest(k, {"teeth", "tooth"}) THEN "teeth"
                   ELSE IF KeyTest(k, {"hole"}) THEN "holes"
                   ELSE "segments"
       IN With(IF KeyTest(k, {"rib", "teeth", "tooth", "hole", "segment"}) /\ params[i].unit = "count"
               THEN [features |-> PushNew(acc.features, name),
                     counts |-> Assign(acc.counts, name, params[i].value)]
               ELSE acc,
               LAMBDA next : featuresFromTree(params, i + 1, next))

\* symmetryConfidenceOf with the implied case tested first.
symmetryConfidenceOf_impliedFirst(explicitSymmetry, impliedSymmetry) ==
  IF impliedSymmetry THEN 7500 ELSE IF explicitSymmetry THEN 9500 ELSE 3000

\* explicitSymmetry ? 0.95 : impliedSymmetry ? 0.75 : 0.3
symmetryConfidenceOf(explicitSymmetry, impliedSymmetry) ==
  IF explicitSymmetry THEN 9500 ELSE IF impliedSymmetry THEN 7500 ELSE 3000

\* The record extractTargetSpec returns, from the prompt in lower case,
\* targetDims and the features with their counts.
targetSpecOf(tree, lower, targetDims, feats) ==
  LET params == ParamValues(tree)
      h == OrElse(targetDims, "height", OrElse(targetDims, "thickness", OrElse(targetDims, "depth", 0)))
      w == OrElse(targetDims, "width", OrElse(targetDims, "diameter", 0))
      hasRatio == h # 0 /\ w # 0 /\ w > 0
      explicitSymmetry == includesAny(lower, symmetryWords)
      impliedSymmetry == includesAny(lower, implicitSymmetry)
      textureHint ==
        IF Includes(feats.features, "ribs") \/ includesAny(lower, {"ribbed", "groov"}) THEN "ribbed"
        ELSE IF includesAny(lower, {"smooth", "plain"}) THEN "smooth"
        ELSE IF Includes(feats.features, "pattern") \/ includesAny(lower, {"repeating"}) THEN "patterned"
        ELSE "unknown"
  IN [targetDims |-> targetDims,
      hasHeightWidth |-> hasRatio,
      height_width |-> IF hasRatio THEN Div(h, w) ELSE 0,
      wantsSymmetry |-> explicitSymmetry \/ impliedSymmetry,
      symmetryConfidence |-> symmetryConfidenceOf(explicitSymmetry, impliedSymmetry),
      targetFeatures |-> feats.features,
      featureCounts |-> feats.counts,
      textureHint |-> textureHint,
      paramTargets |-> [i \in 1..Len(params) |->
                          [key |-> params[i].key, value |-> params[i].value,
                           hasMin |-> params[i].hasMin, min |-> params[i].min,
                           hasMax |-> params[i].hasMax, max |-> params[i].max,
                           locked |-> params[i].locked]]]

extractTargetSpec(tree, prompt) ==
  With(<<lowerOf(prompt),
         dimsFromTree(ParamValues(tree), 1, dimsFromPrompt(prompt, 1, EmptyRecord)),
         featuresFromTree(ParamValues(tree), 1,
           featuresFromPrompt(prompt, 1, [features |-> <<>>, counts |-> EmptyRecord]))>>,
       LAMBDA found : targetSpecOf(tree, found[1], found[2], found[3]))

\* ------------------------------------------------------------------------
\* Geometry metrics
\* ------------------------------------------------------------------------

\* undefined, where a number is read.  It compares false with every
\* number, as undefined does.
Undef == -88888888

\* The optional fields that the metrics object carries.
Has(m, f) == f \notin m.missing

\* metrics.f || d   and   metrics.f ?? d  (a number or undefined)
OrZero(m, f, v, d) == IF Has(m, f) /\ v # 0 THEN v ELSE d

Coalesce(m, f, v, d) == IF Has(m, f) THEN v ELSE d

\* hist[k] || 0 on a histogram (a function on the types that occur)
Count(hist, k) == IF k \in DOMAIN hist THEN hist[k] ELSE 0

\* hasMetricsOf without the test of the error marker.
hasMetricsOf_ignoringError(m) == m.present

\* metrics && !metrics.error
hasMetricsOf(m) == m.present /\ ~m.error

\* !metrics.is_valid
notValid(m) == ~(Has(m, "is_valid") /\ m.is_valid)

\* metrics.volume <= 0  and  metrics.volume > 0 (false on undefined)
volumeLeZero(m) == Has(m, "volume") /\ m.volume <= 0

volumeGtZero(m) == Has(m, "volume") /\ m.volume > 0

\* An entry of an issue list: the text and the number spliced into it.
Issue(msg, arg) == [msg |-> msg, arg |-> arg]

\* ------------------------------------------------------------------------
\* computeQuality
\* ------------------------------------------------------------------------

\* The issues of computeQuality are pushed in the order of the axes.
IssueIf(cond, msg, arg) == IF cond THEN <<Issue(msg, arg)>> ELSE <<>>

\* manifoldOf with the face count tested before the volume.
manifoldOf_facesFirst(m) ==
  IF Has(m, "face_count") /\ m.face_count < 4 THEN 3000
  ELSE IF Has(m, "surface_area") /\ m.surface_area <= 0 THEN 2000
  ELSE IF volumeLeZero(m) THEN 0
  ELSE SCALE

\* let manifold = 1.0
\* if (volume <= 0) manifold = 0.0
\* else if (surface_area <= 0) manifold = 0.2
\* else if (face_count < 4) manifold = 0.3
manifoldOf(m) ==
  IF volumeLeZero(m) THEN 0
  ELSE IF Has(m, "surface_area") /\ m.surface_area <= 0 THEN 2000
  ELSE IF Has(m, "face_count") /\ m.face_count < 4 THEN 3000
  ELSE SCALE

computeQuality(m) ==
  IF ~m.present \/ m.error
  THEN [overall |-> 6500, validity |-> 6500, manifold |-> 6500,
        componentCount |-> 8000, slenderness |-> 7000, complexityBudget |-> 7000,
        issues |-> <<Issue("No BREP metrics - using defaults", 0)>>]
  ELSE
    LET validity == IF notValid(m) THEN 0 ELSE SCALE
        surfaceLeZero == Has(m, "surface_area") /\ m.surface_area <= 0
        fewFaces == Has(m, "face_count") /\ m.face_count < 4
        manifold == manifoldOf(m)
        manifoldIssue == IF volumeLeZero(m) THEN <<Issue("Zero volume", 0)>>
                         ELSE IF surfaceLeZero THEN <<Issue("Zero surface area", 0)>>
                         ELSE IF fewFaces THEN <<Issue("Too few faces for a solid", 0)>>
                         ELSE <<>>
        eulerChar == OrZero(m, "vertex_count", m.vertex_count, 0)
                     - OrZero(m, "edge_count", m.edge_count, 0)
                     + OrZero(m, "face_count", m.face_count, 0)
        componentCount == IF eulerChar = 2 THEN SCALE
                          ELSE IF eulerChar > 2 THEN 7000
                          ELSE 8000
        aspectRatio == OrZero(m, "aspect_ratio", m.aspect_ratio, SCALE)
        slender0 == IF aspectRatio > 100 * SCALE THEN 2000
                    ELSE IF aspectRatio > 50 * SCALE THEN 4000
                    ELSE IF aspectRatio > 20 * SCALE THEN 7000
                    ELSE SCALE
        compactness == OrZero(m, "compactness", m.compactness, 0)
        lowCompactness == compactness < 100 /\ volumeGtZero(m)
        slenderness == IF lowCompactness THEN Min(slender0, 5000) ELSE slender0
        fc == OrZero(m, "face_count", m.face_count, 0)
        complexityBudget == IF fc > 500 THEN 6000
                            ELSE IF fc > 200 THEN 8000
                            ELSE IF fc < 4 /\ volumeGtZero(m) THEN 4000
                            ELSE SCALE
        issues ==
          IssueIf(notValid(m), "BRepCheck failed", 0)
          \o manifoldIssue
          \o IssueIf(eulerChar > 2, "Multiple components detected (Euler=", eulerChar)
          \o IssueIf(aspectRatio > 100 * SCALE, "Extreme slenderness: aspect ratio ", aspectRatio)
          \o IssueIf(aspectRatio <= 100 * SCALE /\ aspectRatio > 50 * SCALE,
                     "Very high aspect ratio: ", aspectRatio)
          \o IssueIf(lowCompactness, "Very low compactness", 0)
          \o IssueIf(fc > 500, "High face count: ", fc)
          \o IssueIf(fc <= 200 /\ fc < 4 /\ volumeGtZero(m), "Too few faces: ", fc)
    IN [overall |-> round((validity * 30 + manifold * 25 + componentCount * 15
                           + slenderness * 15 + complexityBudget * 15) \div 100),
        validity |-> validity, manifold |-> manifold,
        componentCount |-> componentCount, slenderness |-> slenderness,
        complexityBudget |-> complexityBudget, issues |-> issues]

\* ------------------------------------------------------------------------
\* computeSpecMatch
\* ------------------------------------------------------------------------

\* a / b of two fixed-point numbers (b # 0), rounded toward zero.
Quo(a, b) ==
  LET q == (Abs(a) \div Abs(b)) * SCALE + ((Abs(a) % Abs(b)) * SCALE) \div Abs(b)
  IN IF (a < 0) = (b < 0) THEN q ELSE -q

\* seq with x inserted before the first element smaller than x.
RECURSIVE InsertDesc(_, _)
InsertDesc(seq, x) ==
  IF seq = <<>> THEN <<x>>
  ELSE IF x > Head(seq) THEN <<x>> \o seq
  ELSE <<Head(seq)>> \o InsertDesc(Tail(seq), x)

\* seq.sort((a, b) => b - a)
RECURSIVE SortDesc(_)
SortDesc(seq) ==
  IF seq = <<>> THEN <<>>
  ELSE With(SortDesc(Tail(seq)), LAMBDA rest : InsertDesc(rest, Head(seq)))

\* Bounding-box dimensions are kept in units of 0.001.
DimEps == 1

NonTrivial(d) == d > DimEps

\* sortedDims without the sort.
sortedDims_unsorted(dims) == SelectSeq(dims, NonTrivial)

\* [...dims].filter(d => d > 0.001).sort((a, b) => b - a)
sortedDims(dims) == With(SelectSeq(dims, NonTrivial), LAMBDA kept : SortDesc(kept))

\* dimensionsAfter when the array itself is sorted.
dimensionsAfter_sortedInPlace(dims) == SortDesc(dims)

\* metrics.dimensions after the call: the sort is done on a copy.
dimensionsAfter(dims) == dims

\* idealRange in which the first class that matches is kept.
idealRange_firstClassWins(lower) ==
  IF includesAny(lower, {"gear", "disc", "plate", "washer", "flange"})
  THEN [min |-> 500, max |-> 15000]
  ELSE IF includesAny(lower, {"vase", "bottle", "column", "tower"})
  THEN [min |-> 15000, max |-> 80000]
  ELSE IF includesAny(lower, {"bracket", "mount", "frame"})
  THEN [min |-> 3000, max |-> 40000]
  ELSE [min |-> 1000, max |-> 60000]

\* The ideal ratio range of the design type named in the prompt.
idealRange(lower) ==
  LET r0 == [min |-> 1000, max |-> 60000]
      r1 == IF includesAny(lower, {"gear", "disc", "plate", "washer", "flange"})
            THEN [min |-> 500, max |-> 15000] ELSE r0
      r2 == IF includesAny(lower, {"vase", "bottle", "column", "tower"})
            THEN [min |-> 15000, max |-> 80000] ELSE r1
  IN IF includesAny(lower, {"bracket", "mount", "frame"})
     THEN [min |-> 3000, max |-> 40000] ELSE r2

\* First key of the parameter map that contains one of the stems, 0 if none.
findKey(params, stems) ==
  LET hits == {i \in 1..Len(params) : KeyTest(params[i].key, stems)}
  IN IF hits = {} THEN 0 ELSE CHOOSE i \in hits : \A j \in hits : i <= j

treeProportionFallback(tree) ==
  LET params == ParamValues(tree)
      hk == findKey(params, {"height", "thickness", "tall", "depth", "z_axis"})
      wk == findKey(params, {"width", "diameter", "radius", "size", "length", "outer", "pitch"})
  IN IF hk = 0 \/ wk = 0 THEN 7500
     ELSE LET h == params[hk].value
              w == params[wk].value
              ratio == Div(h, w)
          IN IF w = 0 \/ h = 0 THEN 6000
             ELSE IF ratio >= 1000 /\ ratio <= 60000 THEN SCALE
             ELSE With(IF ratio < 1000 THEN Quo(1000, ratio) ELSE Quo(ratio, 60000), LAMBDA off :
                    With(Ln(off), LAMBDA dev :
                      With(Gauss(2, dev), LAMBDA g : MathMax(3000, g))))

\* Step 1 of computeSpecMatch: [score, issues].
proportionsOf(spec, tree, prompt, m) ==
  IF hasMetricsOf(m) /\ Has(m, "dimensions")
  THEN With(sortedDims(m.dimensions), LAMBDA sorted :
         IF spec.hasHeightWidth /\ Len(sorted) >= 2
         THEN With(<<Div(sorted[1], sorted[2]), Ln(Div(sorted[1], sorted[2])),
                     Ln(spec.height_width)>>, LAMBDA l :
                LET actualRatio == l[1]
                    la == l[2]
                    lt == l[3]
                    logDev == IF IsNaN(la) \/ IsNaN(lt) THEN NaN ELSE Abs(la - lt)
                IN With(Gauss(3, logDev), LAMBDA p :
                     [score |-> p,
                      issues |-> IssueIf(~IsNaN(p) /\ p < 5000,
                                         "Ratio mismatch: actual=", actualRatio)]))
         ELSE IF Len(sorted) >= 2
         THEN With(<<Div(sorted[1], sorted[2]), idealRange(lowerOf(prompt))>>, LAMBDA l :
                LET ratio == l[1]
                    r == l[2]
                IN [score |-> IF ratio >= r.min /\ ratio <= r.max THEN SCALE
                              ELSE With(Quo(ratio, IF ratio < r.min THEN r.min ELSE r.max), LAMBDA off :
                                     With(Ln(off), LAMBDA dev :
                                       With(Gauss(2, dev), LAMBDA g : MathMax(3000, g)))),
                    issues |-> <<>>])
         ELSE [score |-> 7500, issues |-> <<>>])
  ELSE [score |-> treeProportionFallback(tree), issues |-> <<>>]

\* symmetryHint without the default.
symmetryHint_noDefault(m) == Coalesce(m, "symmetry_hint", m.symmetry_hint, Undef)

\* metrics.symmetry_hint ?? 0.5
symmetryHint(m) == Coalesce(m, "symmetry_hint", m.symmetry_hint, 5000)

radialOps == {"cylinder", "sphere", "torus", "cone"}

\* unwantedSymmetry that scores the evidence alone.
unwantedSymmetry_noFloor(geoSymmetry) == geoSymmetry

\* symmetry = 0.7 + geoSymmetry * 0.3
unwantedSymmetry(geoSymmetry) == 7000 + Mul(geoSymmetry, 3000)

\* Step 2 of computeSpecMatch: [score, issues, threw]; threw is the
\* TypeError of hint.toFixed on a hint that is not a number.
symmetryOf(spec, tree, m) ==
  IF hasMetricsOf(m)
  THEN LET hint == symmetryHint(m)
           compactness == Coalesce(m, "compactness", m.compactness, 0)
           faceTypes == IF Has(m, "face_types") THEN m.face_types ELSE EmptyRecord
           hasRadial == Count(faceTypes, "CYLINDER") + Count(faceTypes, "SPHERE")
                        + Count(faceTypes, "CONE") + Count(faceTypes, "TORUS") > 0
           geoSymmetry == Min(SCALE,
                              4000 + (IF hasRadial THEN 2500 ELSE 0)
                              + (IF hint > 9000 THEN 2000 ELSE IF hint > 7000 THEN 1000 ELSE 0)
                              + (IF compactness > 5000 THEN 1000 ELSE 0))
           asymmetric == geoSymmetry < 5000 /\ spec.symmetryConfidence > 7000
       IN IF spec.wantsSymmetry
          THEN [score |-> Mul(geoSymmetry, spec.symmetryConfidence)
                          + Mul(SCALE - spec.symmetryConfidence, 7000),
                issues |-> IssueIf(asymmetric, "Symmetry required but geometry is asymmetric (hint=", hint),
                threw |-> asymmetric /\ hint = Undef]
          ELSE [score |-> unwantedSymmetry(geoSymmetry), issues |-> <<>>, threw |-> FALSE]
  ELSE LET hasRadial == \E i \in 1..Len(tree.nodes) : tree.nodes[i] \in radialOps
       IN [score |-> IF spec.wantsSymmetry /\ hasRadial THEN 9500
                     ELSE IF spec.wantsSymmetry /\ ~hasRadial THEN 4000
                     ELSE IF hasRadial THEN 8500
                     ELSE 7000,
           issues |-> <<>>, threw |-> FALSE]

\* featureCredit that gives every feature the credit of an unknown one.
featureCredit_allPartial(feat, spec, faceTypes, edgeTypes, fc) ==
  [credit |-> SCALE \div 2, issues |-> <<>>]

\* The credit of one target feature, [credit, issues]: the switch of step 3.
featureCredit(feat, spec, faceTypes, edgeTypes, fc) ==
  LET full == [credit |-> SCALE, issues |-> <<>>]
      half == [credit |-> SCALE \div 2, issues |-> <<>>]
      none(msg, arg) == [credit |-> 0, issues |-> <<Issue(msg, arg)>>]
  IN CASE feat \in {"holes", "bore"} ->
            IF Count(faceTypes, "CYLINDER") >= 2 THEN full
            ELSE none("Expected " \o feat \o " but no cylindrical faces found", 0)
       [] feat = "ribs" ->
            IF fc > 20 /\ Count(faceTypes, "PLANE") > 10 THEN full
            ELSE IF spec.textureHint = "ribbed" /\ fc > 15 THEN full
            ELSE none("Expected ribs but low face complexity (faces=", fc)
       [] feat = "teeth" ->
            IF fc > 30 THEN full
            ELSE none("Expected teeth but face count low (faces=", fc)
       [] feat = "fillet" ->
            IF Count(faceTypes, "TORUS") > 0 \/ Count(faceTypes, "BSPLINE") > 0 THEN full
            ELSE IF Count(edgeTypes, "CIRCLE") > 0 THEN half
            ELSE none("Expected fillets but no curved transition faces", 0)
       [] feat = "chamfer" ->
            IF Count(faceTypes, "PLANE") > 8 THEN full ELSE half
       [] feat \in {"slots", "cutout"} ->
            IF fc > 12 THEN full
            ELSE none("Expected " \o feat \o " but geometry too simple", 0)
       [] feat = "pattern" ->
            IF fc > 20 THEN full
            ELSE none("Expected pattern but face count low", 0)
       [] OTHER -> half

\* The for loop over spec.targetFeatures: [credit, issues] summed in order.
RECURSIVE matchFeatures(_, _, _, _, _, _)
matchFeatures(feats, i, spec, faceTypes, edgeTypes, fc) ==
  IF i > Len(feats) THEN [credit |-> 0, issues |-> <<>>]
  ELSE With(<<featureCredit(feats[i], spec, faceTypes, edgeTypes, fc),
              matchFeatures(feats, i + 1, spec, faceTypes, edgeTypes, fc)>>, LAMBDA c :
         LET one == c[1]
             rest == c[2]
         IN [credit |-> one.credit + rest.credit, issues |-> one.issues \o rest.issues])

\* name.substring(0, 4)
Substring4(name) ==
  CASE name = "ribs" -> "ribs"
    [] name = "teeth" -> "teet"
    [] name = "holes" -> "hole"
    [] name = "segments" -> "segm"
    [] OTHER -> name

\* The feature names whose count earns the bonus: a tree parameter whose
\* key includes the first four letters of the name, and whose value is
\* less than 2 away from the target count.
bonusNames(spec, tree) ==
  {name \in DOMAIN spec.featureCounts :
     LET params == ParamValues(tree)
         k == findKey(params, {Substring4(name)})
     IN k # 0 /\ Abs(params[k].value - spec.featureCounts[name]) < 2}

\* features = Math.min(1.0, features + 0.05), n times
RECURSIVE addBonus(_, _)
addBonus(f, n) == IF n = 0 THEN f ELSE addBonus(Min(SCALE, f + 500), n - 1)

\* nodeComplexity with nothing for a tree without nodes.
nodeComplexity_emptyTreeZero(nodeCount) ==
  IF nodeCount >= 3 THEN 8500
  ELSE IF nodeCount >= 2 THEN 7000
  ELSE IF nodeCount >= 1 THEN 5000 ELSE 0

\* features = nodeCount >= 3 ? 0.85 : nodeCount >= 2 ? 0.7 : 0.5
nodeComplexity(nodeCount) ==
  IF nodeCount >= 3 THEN 8500
  ELSE IF nodeCount >= 2 THEN 7000 ELSE 5000

\* Step 3 of computeSpecMatch: [score, issues].
featuresOf(spec, tree, m) ==
  LET total == Len(spec.targetFeatures)
      nodeCount == NodeCount(tree)
      fc == OrZero(m, "face_count", m.face_count, 0)
      faceTypes == IF Has(m, "face_types") THEN m.face_types ELSE EmptyRecord
      edgeTypes == IF Has(m, "edge_types") THEN m.edge_types ELSE EmptyRecord
  IN IF total > 0
     THEN IF hasMetricsOf(m)
          THEN With(matchFeatures(spec.targetFeatures, 1, spec, faceTypes, edgeTypes, fc), LAMBDA mf :
                 [score |-> addBonus(Min(SCALE, mf.credit \div total),
                                     Cardinality(bonusNames(spec, tree))),
                  issues |-> mf.issues])
          ELSE [score |-> IF total <= 2 /\ nodeCount >= 3 THEN 9000
                          ELSE IF total <= 2 /\ nodeCount >= 2 THEN 8000
                          ELSE IF total > 2 /\ nodeCount >= 5 THEN 9000
                          ELSE IF total > 2 /\ nodeCount >= 3 THEN 7000
                          ELSE 5000,
                issues |-> <<>>]
     ELSE IF hasMetricsOf(m)
          THEN LET typeVariety == Cardinality(DOMAIN faceTypes)
               IN [score |-> With(5000 + Log2(Max(fc, 1)) \div 12 + typeVariety * 500,
                                  LAMBDA f : Min(SCALE, f)),
                   issues |-> <<>>]
          ELSE [score |-> nodeComplexity(nodeCount), issues |-> <<>>]

\* withinBounds that takes a parameter without bounds as out of range.
withinBounds_unboundedOut(p) ==
  (p.hasMin /\ p.value >= p.min) /\ (p.hasMax /\ p.value <= p.max)

\* p.min === undefined || p.value >= p.min, and the same for max
withinBounds(p) ==
  (~p.hasMin \/ p.value >= p.min) /\ (~p.hasMax \/ p.value <= p.max)

\* Step 4 of computeSpecMatch.
paramBoundsOf(spec) ==
  LET params == spec.paramTargets
      n == Len(params)
      inBounds == Cardinality({i \in 1..n : withinBounds(params[i])})
      boundsRatio == Div(inBounds, n)
      richness == Min(Div(n, 5), SCALE)
  IN IF n > 0 THEN (boundsRatio * 75 + richness * 25) \div 100 ELSE 8000

\* proportions * 0.30 + symmetry * 0.20 + features * 0.30 + paramBounds * 0.20
weightedSpecMatch(p, sy, f, pb) ==
  IF IsNaN(p) THEN NaN ELSE (p * 30 + sy * 20 + f * 30 + pb * 20) \div 100

computeSpecMatch(spec, tree, prompt, m) ==
  With(<<proportionsOf(spec, tree, prompt, m), symmetryOf(spec, tree, m),
         featuresOf(spec, tree, m), paramBoundsOf(spec)>>, LAMBDA step :
  LET pr == step[1]
      sy == step[2]
      fe == step[3]
      pb == step[4]
  IN [overall |-> round(weightedSpecMatch(pr.score, sy.score, fe.score, pb)),
      proportions |-> pr.score, symmetry |-> sy.score, features |-> fe.score,
      paramBounds |-> pb,
      issues |-> pr.issues \o sy.issues \o fe.issues,
      threw |-> sy.threw])

\* ------------------------------------------------------------------------
\* scoreDesign
\* ------------------------------------------------------------------------

\* qualityGate with the two tests in the other order.
qualityGate_volumeFirst(m) ==
  IF m.present /\ ~m.error
  THEN IF Has(m, "volume") /\ m.volume <= 0 THEN 3000
       ELSE IF ~(Has(m, "is_valid") /\ m.is_valid) THEN 4000
       ELSE SCALE
  ELSE SCALE

\* let qualityGate = 1.0
\* if (hasMetrics) { if (!is_valid) qualityGate = 0.4
\*                   else if (volume <= 0) qualityGate = 0.3 }
qualityGate(m) ==
  IF hasMetricsOf(m)
  THEN IF notValid(m) THEN 4000
       ELSE IF volumeLeZero(m) THEN 3000
       ELSE SCALE
  ELSE SCALE

\* overallOf with the two weights exchanged.
overallOf_weightsExchanged(gate, specMatchOverall, qualityOverall) ==
  IF IsNaN(specMatchOverall) THEN NaN
  ELSE round(Mul(gate, (3 * specMatchOverall + 7 * qualityOverall) \div 10))

\* round(qualityGate * (0.7 * specMatch.overall + 0.3 * quality.overall))
overallOf(gate, specMatchOverall, qualityOverall) ==
  IF IsNaN(specMatchOverall) THEN NaN
  ELSE round(Mul(gate, (7 * specMatchOverall + 3 * qualityOverall) \div 10))

\* One entry of the breakdown: the kind of note and the issues joined
\* into it.
Note(tag, issues) == [tag |-> tag, issues |-> issues]

\* breakdownOf with the zero-volume note pushed last.
breakdownOf_zeroVolumeLast(m, quality, specMatch) ==
  (IF m.present /\ ~m.error /\ notValid(m) THEN <<Note("BREP topology invalid (x0.4)", <<>>)>> ELSE <<>>)
  \o (IF quality.overall < 6000 THEN <<Note("Quality: ", quality.issues)>> ELSE <<>>)
  \o (IF ~IsNaN(specMatch.overall) /\ specMatch.overall < 6000
      THEN <<Note("SpecMatch: ", specMatch.issues)>> ELSE <<>>)
  \o (IF m.present /\ ~m.error /\ volumeLeZero(m) THEN <<Note("Zero volume (x0.3)", <<>>)>> ELSE <<>>)

breakdownOf(m, quality, specMatch) ==
  (IF hasMetricsOf(m) /\ notValid(m) THEN <<Note("BREP topology invalid (x0.4)", <<>>)>> ELSE <<>>)
  \o (IF hasMetricsOf(m) /\ volumeLeZero(m) THEN <<Note("Zero volume (x0.3)", <<>>)>> ELSE <<>>)
  \o (IF quality.overall < 6000 THEN <<Note("Quality: ", quality.issues)>> ELSE <<>>)
  \o (IF ~IsNaN(specMatch.overall) /\ specMatch.overall < 6000
      THEN <<Note("SpecMatch: ", specMatch.issues)>> ELSE <<>>)

\* The locals of scoreDesign when it returns.
scoreLocals(tree, prompt, m) ==
  With(extractTargetSpec(tree, prompt), LAMBDA targetSpec :
    [quality |-> computeQuality(m),
     targetSpec |-> targetSpec,
     specMatch |-> computeSpecMatch(targetSpec, tree, prompt, m),
     qualityGate |-> qualityGate(m)])

\* scoreResult with parameterRange read from the parameter-bounds score.
scoreResult_parameterRangeFromBounds(l, m) ==
  IF l.specMatch.threw
  THEN [outcome |-> "threw", overall |-> 0, proportion |-> 0, symmetry |-> 0,
        featureCount |-> 0, parameterRange |-> 0, breakdown |-> <<>>]
  ELSE [outcome |-> "returned",
        overall |-> overallOf(l.qualityGate, l.specMatch.overall, l.quality.overall),
        proportion |-> round(l.specMatch.proportions),
        symmetry |-> round(l.specMatch.symmetry),
        featureCount |-> round(l.specMatch.features),
        parameterRange |-> round(l.specMatch.paramBounds),
        breakdown |-> breakdownOf(m, l.quality, l.specMatch)]

\* The value scoreDesign returns, from its locals; outcome is "threw" when
\* a TypeError left the function instead.
scoreResult(l, m) ==
  IF l.specMatch.threw
  THEN [outcome |-> "threw", overall |-> 0, proportion |-> 0, symmetry |-> 0,
        featureCount |-> 0, parameterRange |-> 0, breakdown |-> <<>>]
  ELSE [outcome |-> "returned",
        overall |-> overallOf(l.qualityGate, l.specMatch.overall, l.quality.overall),
        proportion |-> round(l.specMatch.proportions),
        symmetry |-> round(l.specMatch.symmetry),
        featureCount |-> round(l.specMatch.features),
        parameterRange |-> round(l.quality.overall),
        breakdown |-> breakdownOf(m, l.quality, l.specMatch)]

scoreDesign(tree, prompt, m) ==
  With(scoreLocals(tree, prompt, m), LAMBDA l : scoreResult(l, m))

\* tree.parameters after the call: extractTargetSpec copies each
\* parameter into a new object and writes to none.
parametersAfter(params) == params

\* ------------------------------------------------------------------------
\* The inputs of the model
\* ------------------------------------------------------------------------

\* How many fields of the base input differ in an input of the model.
MaxVary == 2

\* A histogram with the given counts.
Hist1(k, n) == k :> n

Hist2(k1, n1, k2, n2) == (k1 :> n1) @@ (k2 :> n2)

\* The base input: a bounded two-parameter design, a prompt that names
\* both dimensions, and the metrics of a sound box that realises them.
BaseInput ==
  [parameters |-> <<Bounded("height", 50, "mm", 10, 100), Bounded("width", 20, "mm", 5, 50)>>,
   nodes |-> <<"cube", "cylinder", "difference">>,
   prompt |-> <<"Create", "a", "box", "50", "mm", "tall", "20", "mm", "wide">>,
   present |-> TRUE, error |-> FALSE, is_valid |-> TRUE,
   volume |-> 100, surface_area |-> 150,
   face_count |-> 6, edge_count |-> 12, vertex_count |-> 8,
   aspect_ratio |-> 25000, compactness |-> 3000, symmetry_hint |-> 8000,
   face_types |-> Hist1("PLANE", 6), edge_types |-> Hist1("LINE", 12),
   dimensions |-> <<20000, 50000, 20000>>,
   missing |-> {}]

\* The fields in the order in which they are varied.
FieldSeq ==
  <<"parameters", "nodes", "prompt", "present", "error", "is_valid", "volume",
    "surface_area", "face_count", "edge_count", "vertex_count", "aspect_ratio",
    "compactness", "symmetry_hint", "face_types", "edge_types", "dimensions",
    "missing">>

\* The other values of each field.
Alternatives(f) ==
  CASE f = "parameters" ->
         << <<>>,
            <<Param("height", -10, "mm"), Param("width", 20, "mm")>>,
            <<Param("height", 0, "mm"), Param("width", 20, "mm")>>,
            <<Param("height", 5, "mm"), Param("width", 100, "mm")>>,
            <<Param("height", 20, "mm"), Param("width", 20, "mm")>>,
            <<Param("wall_thickness", 2, "mm"), Param("outer_diameter", 80, "mm")>>,
            <<Bounded("height", 200, "mm", 50, 150), Bounded("diameter", 60, "mm", 20, 100)>>,
            <<Bounded("teeth_count", 20, "count", 8, 40), Bounded("outer_diameter", 60, "mm", 20, 100),
              Bounded("thickness", 8, "mm", 2, 20)>>,
            <<Bounded("rib_count", 14, "count", 4, 12), Param("angle", 45, "deg")>>,
            <<Param("teeth", 22, ""), Param("outer_diameter", 60, "mm")>>,
            <<Bounded("segments", 8, "count", 3, 24), Param("height", 40, "mm")>>,
            <<Param("height", 30, "mm"), Param("width", 30, "mm"), Param("depth", 10, "mm"),
              Bounded("thickness", 2, "mm", 1, 5), Bounded("diameter", 8, "mm", 10, 20),
              Param("angle", 45, "deg")>> >>
    [] f = "nodes" ->
         << <<>>, <<"cube">>, <<"cube", "cube">>,
            <<"cube", "cube", "union", "translate", "cylinder">> >>
    [] f = "prompt" ->
         << <<>>,
            <<"Create", "a", "Gear", "with", "20", "teeth">>,
            <<"a", "vase">>,
            <<"symmetric", "bracket", "with", "4", "mounting", "holes", "and", "fillet">>,
            <<"box", "with", "12", "ribs", "and", "slots", "and", "pattern">>,
            <<"plate", "5", "mm", "thick", "100", "mm", "wide">>,
            <<"round", "knob">>,
            <<"height", "of", "80", "mm", "and", "50", "mm", "tall">>,
            <<"a", "cylindrical", "vase">>,
            <<"12", "ribs", "and", "ribs", "12", "with", "ventilation", "slots">>,
            <<"chamfered", "plate", "with", "bore", "and", "cutout">>,
            <<"a", "vase", "on", "a", "mounting", "plate">> >>
    [] f = "present" -> <<FALSE>>
    [] f = "error" -> <<TRUE>>
    [] f = "is_valid" -> <<FALSE>>
    [] f = "volume" -> <<0, -5>>
    [] f = "surface_area" -> <<0>>
    [] f = "face_count" -> <<0, 3, 14, 45, 250, 600>>
    [] f = "edge_count" -> <<10, 14>>
    [] f = "vertex_count" -> <<0, 10>>
    [] f = "aspect_ratio" -> <<0, 300000, 600000, 1500000>>
    [] f = "compactness" -> <<0, 50, 6000>>
    [] f = "symmetry_hint" -> <<4000, 9500>>
    [] f = "face_types" ->
         << EmptyRecord, Hist1("CYLINDER", 3), Hist2("PLANE", 12, "CYLINDER", 2),
            Hist2("PLANE", 20, "TORUS", 1) >>
    [] f = "edge_types" -> << EmptyRecord, Hist2("LINE", 12, "CIRCLE", 4) >>
    [] f = "dimensions" ->
         << <<>>, <<0, 0, 0>>, <<30000, 0, 1>>, <<10000, 20000, 30000>>, <<40000, 10000>>,
            <<60000, 60000, 200000>>, <<100000, 100000, 5000>> >>
    [] f = "missing" ->
         << {"dimensions"}, {"symmetry_hint", "compactness"},
            {"volume", "surface_area", "face_count", "edge_count", "vertex_count",
             "aspect_ratio", "compactness", "symmetry_hint", "face_types",
             "edge_types", "dimensions"} >>

\* Every single change of the base input: <<field, number of the value>>.
RECURSIVE editsFrom(_)
editsFrom(j) ==
  IF j > Len(FieldSeq) THEN <<>>
  ELSE [k \in 1..Len(Alternatives(FieldSeq[j])) |-> <<FieldSeq[j], k>>] \o editsFrom(j + 1)

Edits == editsFrom(1)

\* The choices of at most MaxVary changes: edit numbers in falling order,
\* 0 for no change.
EditChoices ==
  {c \in [1..MaxVary -> 0..Len(Edits)] :
     \A j \in 1..(MaxVary - 1) : c[j + 1] = 0 \/ c[j] > c[j + 1]}

applyEdit(i, n) ==
  IF n = 0 THEN i
  ELSE [i EXCEPT ![Edits[n][1]] = Alternatives(Edits[n][1])[Edits[n][2]]]

\* The base input with the changes c[j..] made.
RECURSIVE inputOf(_, _)
inputOf(c, j) ==
  IF j > MaxVary THEN BaseInput ELSE applyEdit(inputOf(c, j + 1), c[j])

\* geometryMetrics === undefined
NoMetrics ==
  [present |-> FALSE, error |-> FALSE, is_valid |-> FALSE,
   volume |-> 0, surface_area |-> 0, face_count |-> 0, edge_count |-> 0,
   vertex_count |-> 0, aspect_ratio |-> 0, compactness |-> 0, symmetry_hint |-> 0,
   face_types |-> EmptyRecord, edge_types |-> EmptyRecord, dimensions |-> <<>>,
   missing |-> {}]

treeOf(i) == [parameters |-> i.parameters, nodes |-> i.nodes]

metricsOf(i) ==
  IF ~i.present THEN NoMetrics
  ELSE [present |-> TRUE, error |-> i.error, is_valid |-> i.is_valid,
        volume |-> i.volume, surface_area |-> i.surface_area,
        face_count |-> i.face_count, edge_count |-> i.edge_count,
        vertex_count |-> i.vertex_count, aspect_ratio |-> i.aspect_ratio,
        compactness |-> i.compactness, symmetry_hint |-> i.symmetry_hint,
        face_types |-> i.face_types, edge_types |-> i.edge_types,
        dimensions |-> i.dimensions, missing |-> i.missing]

\* ------------------------------------------------------------------------
\* The caller: one call of scoreDesign, then a second call on a related
\* input whose result is kept beside the first
\* ------------------------------------------------------------------------

VARIABLES
  tree,      \* the DesignTree handed to scoreDesign
  prompt,    \* the prompt
  metrics,   \* the geometry metrics, NoMetrics when there are none
  pc,        \* "ready" before the call, "scored" after it
  locals,    \* the locals of the call when it returned
  result,    \* the ScoreResult of the call
  twin       \* the second call: its kind and its ScoreResult

vars == <<tree, prompt, metrics, pc, locals, result, twin>>

NoResult ==
  [outcome |-> "none", overall |-> 0, proportion |-> 0, symmetry |-> 0,
   featureCount |-> 0, parameterRange |-> 0, breakdown |-> <<>>]

NoTwin == [kind |-> "none", result |-> NoResult]

\* The locals before the call: those of no design at all.
NoLocals == scoreLocals([parameters |-> <<>>, nodes |-> <<>>], <<>>, NoMetrics)

Init ==
  \E c \in EditChoices :
    /\ tree = treeOf(inputOf(c, 1))
    /\ prompt = inputOf(c, 1).prompt
    /\ metrics = metricsOf(inputOf(c, 1))
    /\ pc = "ready"
    /\ locals = NoLocals
    /\ result = NoResult
    /\ twin = NoTwin

\* scoreDesign(tree, prompt, geometryMetrics)
Score ==
  /\ pc = "ready"
  /\ pc' = "scored"
  /\ locals' = scoreLocals(tree, prompt, metrics)
  /\ result' = scoreResult(locals', metrics)
  /\ tree' = [tree EXCEPT !.parameters = parametersAfter(@)]
  /\ metrics' = [metrics EXCEPT !.dimensions = dimensionsAfter(@)]
  /\ UNCHANGED <<prompt, twin>>

\* The same call with is_valid negated.
ScoreFlipped ==
  /\ pc = "scored"
  /\ twin = NoTwin
  /\ metrics.present
  /\ twin' = [kind |-> "is_valid negated",
              result |-> scoreDesign(tree, prompt, [metrics EXCEPT !.is_valid = ~@])]
  /\ UNCHANGED <<tree, prompt, metrics, pc, locals, result>>

\* The same call without metrics.
ScoreWithoutMetrics ==
  /\ pc = "scored"
  /\ twin = NoTwin
  /\ twin' = [kind |-> "no metrics", result |-> scoreDesign(tree, prompt, NoMetrics)]
  /\ UNCHANGED <<tree, prompt, metrics, pc, locals, result>>

\* The parameters with other values and other bounds: every value is
\* raised and given bounds that it lies outside.
otherParameters(params) ==
  [i \in 1..Len(params) |->
     [params[i] EXCEPT !.value = @ + 1000, !.hasMin = TRUE, !.min = 0,
                       !.hasMax = TRUE, !.max = 1]]

\* The same call on a tree whose parameters have other values and bounds.
ScoreOtherParameters ==
  /\ pc = "scored"
  /\ twin = NoTwin
  /\ twin' = [kind |-> "other parameters",
              result |-> scoreDesign([tree EXCEPT !.parameters = otherParameters(@)],
                                     prompt, metrics)]
  /\ UNCHANGED <<tree, prompt, metrics, pc, locals, result>>

\* The extents of the bounding box listed in the opposite order.
Reversed(dims) == [i \in 1..Len(dims) |-> dims[Len(dims) + 1 - i]]

\* The same call on the measurements of the box turned over: a box that
\* measures a by b becomes one that measures b by a.
ScoreDimensionsReversed ==
  /\ pc = "scored"
  /\ twin = NoTwin
  /\ metrics.present
  /\ twin' = [kind |-> "dimensions reversed",
              result |-> scoreDesign(tree, prompt,
                                     [metrics EXCEPT !.dimensions = Reversed(@)])]
  /\ UNCHANGED <<tree, prompt, metrics, pc, locals, result>>

Next ==
  \/ Score
  \/ ScoreFlipped
  \/ ScoreWithoutMetrics
  \/ ScoreOtherParameters
  \/ ScoreDimensionsReversed

Spec == Init /\ [][Next]_vars

\* ------------------------------------------------------------------------
\* Properties
\* ------------------------------------------------------------------------

Scored == pc = "scored"

\* x is a number between 0 and 1.
InUnit(x) == ~IsNaN(x) /\ 0 <= x /\ x <= SCALE

\* a <= b as JavaScript compares: false when either is NaN.
AtMost(a, b) == ~IsNaN(a) /\ ~IsNaN(b) /\ a <= b

\* a > b as JavaScript compares.
Higher(a, b) == ~IsNaN(a) /\ ~IsNaN(b) /\ a > b

\* C1: every score of the returned ScoreResult (overall, proportion,
\* symmetry, featureCount, parameterRange) is a number in [0, 1], for every
\* graph, prompt and metrics.
C1_ScoresInUnitInterval ==
  Scored =>
    /\ InUnit(result.overall)
    /\ InUnit(result.proportion)
    /\ InUnit(result.symmetry)
    /\ InUnit(result.featureCount)
    /\ InUnit(result.parameterRange)

\* C2: of two calls that differ only in is_valid, the one with
\* is_valid = false never has the higher overall score, whatever the volume.
C2_InvalidNeverHigher ==
  twin.kind = "is_valid negated" =>
    LET invalid == IF metrics.is_valid THEN twin.result ELSE result
        valid == IF metrics.is_valid THEN result ELSE twin.result
    IN ~Higher(invalid.overall, valid.overall)

\* C3: the gate factor is 1.0 without usable metrics; with metrics it is
\* 0.4 when is_valid is false (also when the volume is <= 0), 0.3 when
\* is_valid is true and the volume is <= 0, and 1.0 otherwise.
C3_GateFactor ==
  Scored =>
    locals.qualityGate =
      (IF ~metrics.present \/ metrics.error THEN SCALE
       ELSE IF ~metrics.is_valid THEN 4000
       ELSE IF "volume" \notin metrics.missing /\ metrics.volume <= 0 THEN 3000
       ELSE SCALE)

\* C3, its case: a scored shape that is invalid and has no volume.
C3_InvalidAndZeroVolume ==
  /\ Scored
  /\ metrics.present /\ ~metrics.error /\ ~metrics.is_valid
  /\ "volume" \notin metrics.missing /\ metrics.volume <= 0
  /\ locals.qualityGate = 4000

\* C4: with metrics and is_valid false the overall score is at most 0.4;
\* with metrics, is_valid true and volume <= 0 it is at most 0.3.
C4_GateCapsOverall ==
  Scored /\ metrics.present /\ ~metrics.error =>
    /\ ~metrics.is_valid => AtMost(result.overall, 4000)
    /\ (metrics.is_valid /\ "volume" \notin metrics.missing /\ metrics.volume <= 0)
         => AtMost(result.overall, 3000)

\* The weighted sum 0.30 proportions + 0.20 symmetry + 0.30 features
\* + 0.20 paramBounds of the locals, in units of 0.000001.
WeightedSum ==
  30 * locals.specMatch.proportions + 20 * locals.specMatch.symmetry
  + 30 * locals.specMatch.features + 20 * locals.specMatch.paramBounds

\* The gate factor in tenths and Quality.overall in hundredths.
GateTenths == locals.qualityGate \div 1000

QualityHundredths == locals.quality.overall \div 100

\* C5 as stated: overall is QualityGate x (0.7 x SpecMatch.overall + 0.3 x
\* Quality.overall) rounded to two decimals, with SpecMatch.overall the
\* weighted sum itself.
C5_OverallOfWeightedSum ==
  Scored /\ ~IsNaN(locals.specMatch.proportions) =>
    result.overall =
      ((GateTenths * (7 * WeightedSum + 3 * QualityHundredths * 10000) + 500000)
         \div 1000000) * 100

\* C5 amended: the same, with SpecMatch.overall the weighted sum rounded to
\* two decimals before it is combined; overall is NaN when the weighted sum
\* is.
C5_OverallOfRoundedSum ==
  Scored =>
    IF IsNaN(locals.specMatch.proportions) THEN IsNaN(result.overall)
    ELSE LET specMatchHundredths == (WeightedSum + 5000) \div 10000
         IN result.overall =
              ((GateTenths * (7 * specMatchHundredths + 3 * QualityHundredths) + 50)
                 \div 100) * 100

\* C5, its case: a gated call whose weighted sum is not a whole number of
\* hundredths.
C5_GatedUnroundedSum ==
  /\ Scored
  /\ locals.qualityGate < SCALE
  /\ ~IsNaN(locals.specMatch.proportions)
  /\ WeightedSum % 10000 # 0
  /\ result.overall > 0

\* The kinds of the breakdown entries, in order.
BreakdownTags == [i \in 1..Len(result.breakdown) |-> result.breakdown[i].tag]

\* C6: the breakdown is, in this order, the invalid-topology note iff
\* there are metrics and is_valid is false, the zero-volume note iff there
\* are metrics and volume <= 0, a Quality entry iff Quality.overall < 0.6,
\* a SpecMatch entry iff SpecMatch.overall < 0.6, and nothing else.
C6_BreakdownOrder ==
  Scored =>
    LET usable == metrics.present /\ ~metrics.error
        zero == "volume" \notin metrics.missing /\ metrics.volume <= 0
    IN BreakdownTags =
         (IF usable /\ ~metrics.is_valid THEN <<"BREP topology invalid (x0.4)">> ELSE <<>>)
         \o (IF usable /\ zero THEN <<"Zero volume (x0.3)">> ELSE <<>>)
         \o (IF AtMost(locals.quality.overall, 5999) THEN <<"Quality: ">> ELSE <<>>)
         \o (IF AtMost(locals.specMatch.overall, 5999) THEN <<"SpecMatch: ">> ELSE <<>>)

\* C6, its case: both gate notes and a Quality entry in one breakdown.
C6_ThreeEntries ==
  /\ Scored
  /\ Len(result.breakdown) >= 3
  /\ result.breakdown[2].tag = "Zero volume (x0.3)"

\* C7: with error-marked metrics scoreDesign returns the ScoreResult it
\* returns without metrics, whatever else the metrics hold.
C7_ErrorMarkedAsAbsent ==
  (twin.kind = "no metrics" /\ metrics.present /\ metrics.error) =>
    result = twin.result

\* C7, its case: error-marked metrics of an invalid shape, scored with and
\* without the metrics.
C7_ErrorMarkedInvalid ==
  /\ twin.kind = "no metrics"
  /\ metrics.present /\ metrics.error /\ ~metrics.is_valid
  /\ twin.result.outcome = "returned"

\* C8: scoreDesign returns a ScoreResult and raises nothing, for empty
\* prompts, empty parameter and node maps, absent metrics, metrics with
\* missing fields, zero values and no features.
C8_NeverThrows ==
  /\ Scored => result.outcome = "returned"
  /\ twin.kind # "none" => twin.result.outcome = "returned"

\* C8, its case: metrics without symmetry_hint, and the issue that formats
\* the hint is pushed.
C8_HintMissingAndFormatted ==
  /\ Scored
  /\ metrics.present /\ ~metrics.error /\ "symmetry_hint" \in metrics.missing
  /\ \E i \in 1..Len(locals.specMatch.issues) :
       locals.specMatch.issues[i].msg = "Symmetry required but geometry is asymmetric (hint="
  /\ result.outcome = "returned"

\* C10: a call leaves the design tree (parameters and nodes), the prompt
\* and the metrics as they were.
C10_InputsUnchanged ==
  [][tree' = tree /\ prompt' = prompt /\ metrics' = metrics]_vars

\* C10, its case: a call was made on a graph with parameters and on
\* metrics whose dimensions are not in sorted order.
C10_ScoredUnsortedDimensions ==
  /\ Scored
  /\ Len(tree.parameters) > 0
  /\ metrics.present /\ ~metrics.error /\ "dimensions" \notin metrics.missing
  /\ metrics.dimensions # SortDesc(metrics.dimensions)

\* n rounded to two decimals, halves up, written out; NaN stays NaN.
Hundredths(n) == IF IsNaN(n) THEN NaN ELSE ((n + 50) \div 100) * 100

\* C11: in the returned ScoreResult proportion, symmetry and featureCount
\* are SpecMatch.proportions, SpecMatch.symmetry and SpecMatch.features and
\* parameterRange is Quality.overall, each rounded to two decimals; a call
\* that differs only in parameter values and bounds returns the same
\* parameterRange.
C11_ResultFields ==
  /\ Scored =>
       /\ result.proportion = Hundredths(locals.specMatch.proportions)
       /\ result.symmetry = Hundredths(locals.specMatch.symmetry)
       /\ result.featureCount = Hundredths(locals.specMatch.features)
       /\ result.parameterRange = Hundredths(locals.quality.overall)
  /\ twin.kind = "other parameters" =>
       twin.result.parameterRange = result.parameterRange

\* C11, its case: the call with other parameter values and bounds has
\* another parameter-bounds score, seen in its overall score.
C11_OtherBoundsOtherOverall ==
  /\ twin.kind = "other parameters"
  /\ Len(tree.parameters) > 0
  /\ ~IsNaN(result.overall) /\ ~IsNaN(twin.result.overall)
  /\ twin.result.overall # result.overall
  /\ locals.specMatch.paramBounds # locals.quality.overall

\* C12: when the target specification has no target features the features
\* score is at least 0.5, with measurements (whatever the face count and
\* the face types) and without them (whatever the node count).
C12_EmptyFeaturesFloor ==
  Scored /\ locals.targetSpec.targetFeatures = <<>> =>
    /\ ~IsNaN(locals.specMatch.features)
    /\ locals.specMatch.features >= 5000

\* C12, its case: measurements with face count 0 and no face types, no
\* target features, and the features score at the floor.
C12_NoFacesAtFloor ==
  /\ Scored
  /\ locals.targetSpec.targetFeatures = <<>>
  /\ metrics.present /\ ~metrics.error
  /\ metrics.face_count = 0 /\ metrics.face_types = EmptyRecord
  /\ locals.specMatch.features = 5000

InRange ==
  {i \in 1..Len(tree.parameters) :
     LET p == tree.parameters[i]
     IN (p.hasMin => p.value >= p.min) /\ (p.hasMax => p.value <= p.max)}

\* C14: with n >= 1 parameters, paramBounds is 0.75 x (k / n) + 0.25 x
\* min(n / 5, 1), k the number of parameters within the bounds they carry
\* (a parameter without bounds is in range); to the last digit kept.
C14_ParamBoundsFormula ==
  Scored /\ Len(tree.parameters) >= 1 =>
    LET n == Len(tree.parameters)
        k == Cardinality(InRange)
        richFifths == IF n < 5 THEN n ELSE 5
        gap == locals.specMatch.paramBounds * n - (7500 * k + 500 * richFifths * n)
    IN -n <= gap /\ gap <= n

\* C14, its case: two bounded parameters, one of them out of range, and
\* paramBounds = 0.75 x 0.5 + 0.25 x 0.4.
C14_OneOfTwoOutOfRange ==
  /\ Scored
  /\ Len(tree.parameters) = 2
  /\ \A i \in 1..2 : tree.parameters[i].hasMin /\ tree.parameters[i].hasMax
  /\ Cardinality(InRange) = 1
  /\ locals.specMatch.paramBounds = 4750

\* C15: without usable measurements the quality scorer returns 0.65 as
\* overall and on each of its five axes, and exactly one issue.
C15_NeutralDefaults ==
  Scored /\ (~metrics.present \/ metrics.error) =>
    /\ locals.quality.overall = 6500
    /\ locals.quality.validity = 6500
    /\ locals.quality.manifold = 6500
    /\ locals.quality.componentCount = 6500
    /\ locals.quality.slenderness = 6500
    /\ locals.quality.complexityBudget = 6500
    /\ Len(locals.quality.issues) = 1

\* The patterns of the table that carry the name and match the prompt.
DimHits(name) ==
  {i \in 1..Len(dimPatterns) :
     dimPatterns[i].key = name /\ match(prompt, dimPatterns[i].pat).found}

\* The keys of the parameters whose unit is a length or a count.
MeasuredKeys ==
  {tree.parameters[i].key : i \in {j \in 1..Len(tree.parameters) :
                                     tree.parameters[j].unit \in {"mm", "count"}}}

\* The names of the table of dimension patterns.
DimNames == {dimPatterns[i].key : i \in 1..Len(dimPatterns)}

\* C16: for a name that several patterns of the table match in the prompt
\* (and that no parameter overrides), the target dimension is the value
\* captured by the first matching pattern in table order.
C16_FirstMatchWins ==
  Scored =>
    \A name \in DimNames \ MeasuredKeys :
      DimHits(name) # {} =>
        LET first == CHOOSE i \in DimHits(name) : \A j \in DimHits(name) : i <= j
        IN /\ name \in DOMAIN locals.targetSpec.targetDims
           /\ locals.targetSpec.targetDims[name] = match(prompt, dimPatterns[first].pat).value

\* C17: for every parameter whose unit is mm or count the target dimension
\* under the parameter's key is the parameter's value, whatever the prompt
\* says for that key; the other target dimensions are those of names that
\* a pattern matches in the prompt.
C17_GraphOverridesText ==
  Scored =>
    /\ \A i \in 1..Len(tree.parameters) :
         tree.parameters[i].unit \in {"mm", "count"} =>
           /\ tree.parameters[i].key \in DOMAIN locals.targetSpec.targetDims
           /\ locals.targetSpec.targetDims[tree.parameters[i].key] = tree.parameters[i].value
    /\ \A name \in DOMAIN locals.targetSpec.targetDims \ MeasuredKeys :
         /\ name \in DimNames
         /\ \E i \in DimHits(name) :
              locals.targetSpec.targetDims[name] = match(prompt, dimPatterns[i].pat).value

\* C17, its case: the prompt says 50 mm tall and 20 mm wide, the tree has a
\* height of 200 mm and no width; the target height is 200 and the target
\* width is the 20 of the prompt.
C17_HeightFromGraphWidthFromText ==
  /\ Scored
  /\ DimHits("height") # {} /\ DimHits("width") # {}
  /\ "height" \in MeasuredKeys /\ "width" \notin MeasuredKeys
  /\ locals.targetSpec.targetDims["height"] = 200
  /\ locals.targetSpec.targetDims["width"] = 20

\* The prompt holds an explicit symmetry word; it holds the name of a
\* shape that implies symmetry.
SaysSymmetry == \E i \in 1..Len(prompt) : Substrings(ToLower(prompt[i])) \cap symmetryWords # {}

NamesRoundShape == \E i \in 1..Len(prompt) : Substrings(ToLower(prompt[i])) \cap implicitSymmetry # {}

\* C18: symmetry is wanted with confidence 0.95 when the prompt holds an
\* explicit symmetry word (also beside a shape name), else wanted with
\* confidence 0.75 when it holds an implicit shape name, else not wanted
\* with confidence 0.3; so it is wanted iff the confidence exceeds 0.3.
C18_SymmetryIntent ==
  Scored =>
    /\ SaysSymmetry =>
         locals.targetSpec.wantsSymmetry /\ locals.targetSpec.symmetryConfidence = 9500
    /\ ~SaysSymmetry /\ NamesRoundShape =>
         locals.targetSpec.wantsSymmetry /\ locals.targetSpec.symmetryConfidence = 7500
    /\ ~SaysSymmetry /\ ~NamesRoundShape =>
         ~locals.targetSpec.wantsSymmetry /\ locals.targetSpec.symmetryConfidence = 3000
    /\ locals.targetSpec.wantsSymmetry <=> locals.targetSpec.symmetryConfidence > 3000

\* C18, its case: a prompt with an explicit symmetry word and an implicit
\* shape name, scored with confidence 0.95.
C18_ExplicitBesideImplicit ==
  /\ Scored
  /\ SaysSymmetry /\ NamesRoundShape
  /\ locals.targetSpec.symmetryConfidence = 9500

\* The patterns of the feature table that carry the name and match the
\* prompt.
FeatureHits(name) ==
  {i \in 1..Len(featurePatterns) :
     featurePatterns[i].name = name /\ match(prompt, featurePatterns[i].pat).found}

\* C19: no feature name is twice in the target feature list, and every
\* name with an expected count is in the list.
C19_FeaturesOnce ==
  Scored =>
    LET feats == locals.targetSpec.targetFeatures
    IN /\ \A i, j \in 1..Len(feats) : feats[i] = feats[j] => i = j
       /\ \A name \in DOMAIN locals.targetSpec.featureCounts :
            \E i \in 1..Len(feats) : feats[i] = name

\* C19, its case: ribs matched by two patterns of the prompt and named by
\* a count parameter of the tree, slots matched by two patterns.
C19_RibsThreeTimesOver ==
  /\ Scored
  /\ Cardinality(FeatureHits("ribs")) = 2
  /\ Cardinality(FeatureHits("slots")) = 2
  /\ \E i \in 1..Len(tree.parameters) :
       tree.parameters[i].key = "rib_count" /\ tree.parameters[i].unit = "count"
  /\ locals.targetSpec.targetFeatures = <<"ribs", "slots">>
  /\ "ribs" \in DOMAIN locals.targetSpec.featureCounts

\* C20: in the quality scorer with measurements, an empty issue list means
\* that all five axes are 1.0: every demotion of an axis adds an issue.
C20_DemotionAddsIssue ==
  Scored /\ metrics.present /\ ~metrics.error /\ locals.quality.issues = <<>> =>
    /\ locals.quality.validity = SCALE
    /\ locals.quality.manifold = SCALE
    /\ locals.quality.componentCount = SCALE
    /\ locals.quality.slenderness = SCALE
    /\ locals.quality.complexityBudget = SCALE

\* A measured number of the metrics is at most 0, or below a limit
\* (false when the field is not there).
NotPositive(f) == f \notin metrics.missing /\ metrics[f] <= 0

FewerThan(f, limit) == f \notin metrics.missing /\ metrics[f] < limit

\* C21: with measurements the manifold axis is 0.0 when the volume is at
\* most 0, whatever the surface area and the face count; otherwise 0.2
\* when the surface area is at most 0; otherwise 0.3 when there are fewer
\* than 4 faces; otherwise 1.0.
C21_ManifoldPriority ==
  Scored /\ metrics.present /\ ~metrics.error =>
    /\ NotPositive("volume") => locals.quality.manifold = 0
    /\ ~NotPositive("volume") /\ NotPositive("surface_area") =>
         locals.quality.manifold = 2000
    /\ ~NotPositive("volume") /\ ~NotPositive("surface_area") /\ FewerThan("face_count", 4) =>
         locals.quality.manifold = 3000
    /\ ~NotPositive("volume") /\ ~NotPositive("surface_area") /\ ~FewerThan("face_count", 4) =>
         locals.quality.manifold = SCALE

\* C21, its case: no volume and fewer than 4 faces at once, and the axis
\* is 0.0, not 0.3.
C21_NoVolumeAndFewFaces ==
  /\ Scored /\ metrics.present /\ ~metrics.error
  /\ NotPositive("volume") /\ FewerThan("face_count", 4)
  /\ locals.quality.manifold = 0

\* The height-like and the width-like parameter of the graph, 0 if none.
HeightLike == findKey(tree.parameters, {"height", "thickness", "tall", "depth", "z_axis"})

WidthLike ==
  findKey(tree.parameters, {"width", "diameter", "radius", "size", "length", "outer", "pitch"})

\* C22: without measurements the proportions score is 0.75 when the graph
\* has no pair of a height-like and a width-like parameter; with such a
\* pair of positive values it is 1.0 when their ratio lies in the ideal
\* range of the design type named in the prompt, and at least 0.3
\* otherwise.
C22_FallbackUsesPromptRange ==
  twin.kind = "no metrics" /\ twin.result.outcome = "returned" =>
    IF HeightLike = 0 \/ WidthLike = 0
    THEN twin.result.proportion = 7500
    ELSE LET h == tree.parameters[HeightLike].value
             w == tree.parameters[WidthLike].value
             r == idealRange(lowerOf(prompt))
         IN h > 0 /\ w > 0 =>
              /\ twin.result.proportion >= 3000
              /\ Div(h, w) >= r.min /\ Div(h, w) <= r.max =>
                   twin.result.proportion = SCALE

\* C23: when the target specification does not desire symmetry, the
\* symmetry score is at least 0.7, with and without measurements; with
\* measurements it is 0.7 + 0.3 x e for an evidence e in [0.4, 0.95].
C23_NoSymmetryNoPenalty ==
  Scored /\ ~locals.targetSpec.wantsSymmetry =>
    /\ locals.specMatch.symmetry >= 7000
    /\ twin.kind # "none" => twin.result.symmetry >= 7000
    /\ metrics.present /\ ~metrics.error =>
         \E e \in 4000..9500 : 10 * (locals.specMatch.symmetry - 7000) = 3 * e

\* C23, its case: symmetry is not desired and the measurements show none
\* of it (no round face, a low hint, a low compactness): the score is
\* 0.7 + 0.3 x 0.4.
C23_NoEvidenceStillHigh ==
  /\ Scored /\ ~locals.targetSpec.wantsSymmetry
  /\ metrics.present /\ ~metrics.error
  /\ metrics.missing = {}
  /\ metrics.symmetry_hint <= 7000 /\ metrics.compactness <= 5000
  /\ DOMAIN metrics.face_types \subseteq {"PLANE"}
  /\ locals.specMatch.symmetry = 8200

\* 1 when a node of the graph is a round primitive, 0 when none is.
RadialNodeEvidence ==
  IF \E i \in 1..Len(tree.nodes) : tree.nodes[i] \in radialOps THEN SCALE ELSE 0

\* C24: without measurements the symmetry score is the formula of the
\* measured case with the evidence e = 1 for a graph with a round primitive
\* and e = 0 for one without: e x confidence + 0.7 x (1 - confidence) when
\* symmetry is desired, 0.7 + 0.3 x e when it is not.
C24_NodeEvidenceInFormula ==
  twin.kind = "no metrics" /\ twin.result.outcome = "returned" =>
    LET e == RadialNodeEvidence
        confidence == locals.targetSpec.symmetryConfidence
    IN twin.result.symmetry =
         round(IF locals.targetSpec.wantsSymmetry
               THEN Mul(e, confidence) + Mul(SCALE - confidence, 7000)
               ELSE 7000 + Mul(e, 3000))

\* The features score before the count bonus, with measurements.
MatchedShare ==
  LET spec == locals.targetSpec
      fc == OrZero(metrics, "face_count", metrics.face_count, 0)
      faceTypes == IF Has(metrics, "face_types") THEN metrics.face_types ELSE EmptyRecord
      edgeTypes == IF Has(metrics, "edge_types") THEN metrics.edge_types ELSE EmptyRecord
  IN Min(SCALE, matchFeatures(spec.targetFeatures, 1, spec, faceTypes, edgeTypes, fc).credit
                \div Len(spec.targetFeatures))

\* The features with an expected count c and a matching parameter of the
\* graph whose value v has |v - c| <= 2.
CountWithinTwo ==
  {name \in DOMAIN locals.targetSpec.featureCounts :
     LET k == findKey(tree.parameters, {Substring4(name)})
     IN k # 0 /\ Abs(tree.parameters[k].value - locals.targetSpec.featureCounts[name]) <= 2}

\* C25: with measurements and at least one target feature, the features
\* score is raised by 0.05, capped at 1.0, for each feature whose expected
\* count is within 2 of the value of a matching parameter of the graph, a
\* difference of exactly 2 included, and for no other feature.
C25_BonusWithinTwo ==
  (/\ Scored /\ metrics.present /\ ~metrics.error
   /\ Len(locals.targetSpec.targetFeatures) >= 1) =>
    locals.specMatch.features = Min(SCALE, MatchedShare + 500 * Cardinality(CountWithinTwo))

\* The measured face count and the number of faces and edges of a type.
Faces == IF "face_count" \in metrics.missing THEN 0 ELSE metrics.face_count

FacesOf(type) ==
  IF "face_types" \notin metrics.missing /\ type \in DOMAIN metrics.face_types
  THEN metrics.face_types[type] ELSE 0

EdgesOf(type) ==
  IF "edge_types" \notin metrics.missing /\ type \in DOMAIN metrics.edge_types
  THEN metrics.edge_types[type] ELSE 0

\* Twice the credit of a target feature: 2 when the geometry corroborates
\* it, 1 for half a credit, 0 for none.
TwiceCredit(feat) ==
  CASE feat \in {"holes", "bore"} -> IF FacesOf("CYLINDER") >= 2 THEN 2 ELSE 0
    [] feat = "ribs" ->
         IF \/ Faces > 20 /\ FacesOf("PLANE") > 10
            \/ locals.targetSpec.textureHint = "ribbed" /\ Faces > 15
         THEN 2 ELSE 0
    [] feat = "teeth" -> IF Faces > 30 THEN 2 ELSE 0
    [] feat \in {"slots", "cutout"} -> IF Faces > 12 THEN 2 ELSE 0
    [] feat = "pattern" -> IF Faces > 20 THEN 2 ELSE 0
    [] feat = "fillet" ->
         IF FacesOf("TORUS") > 0 \/ FacesOf("BSPLINE") > 0 THEN 2
         ELSE IF EdgesOf("CIRCLE") > 0 THEN 1 ELSE 0
    [] feat = "chamfer" -> IF FacesOf("PLANE") > 8 THEN 2 ELSE 1
    [] OTHER -> 1

RECURSIVE SumTwiceCredit(_)
SumTwiceCredit(i) ==
  IF i > Len(locals.targetSpec.targetFeatures) THEN 0
  ELSE TwiceCredit(locals.targetSpec.targetFeatures[i]) + SumTwiceCredit(i + 1)

\* The issues of the features step: those that begin with "Expected".
FeatureIssues ==
  {i \in 1..Len(locals.specMatch.issues) :
     locals.specMatch.issues[i].msg \notin
       {"Ratio mismatch: actual=", "Symmetry required but geometry is asymmetric (hint="}}

\* C26: with measurements and n >= 1 target features the features score
\* before the count bonus is min(1, credit / n), the credit of a feature
\* being 1 on its geometric corroboration, 0.5 where the claim grants half
\* a credit and for an unrecognised name, and 0 otherwise; each feature
\* without credit adds one issue.
C26_FeatureCredit ==
  (/\ Scored /\ metrics.present /\ ~metrics.error
   /\ Len(locals.targetSpec.targetFeatures) >= 1) =>
    LET n == Len(locals.targetSpec.targetFeatures)
        share == Min(SCALE, (SumTwiceCredit(1) * SCALE) \div (2 * n))
    IN /\ locals.specMatch.features
            = addBonus(share, Cardinality(bonusNames(locals.targetSpec, tree)))
       /\ Cardinality(FeatureIssues)
            = Cardinality({i \in 1..n : TwiceCredit(locals.targetSpec.targetFeatures[i]) = 0})

\* C26, its case: holes without cylindrical faces and a fillet that only
\* circular edges speak for: no credit and half a credit of two, one issue.
C26_HolesUnmatchedFilletHalf ==
  /\ Scored /\ metrics.present /\ ~metrics.error
  /\ locals.targetSpec.targetFeatures = <<"holes", "fillet">>
  /\ FacesOf("CYLINDER") = 0 /\ FacesOf("TORUS") = 0 /\ EdgesOf("CIRCLE") > 0
  /\ locals.specMatch.features = 2500
  /\ Cardinality(FeatureIssues) = 1

\* The target height and the target width of the specification, 0 if none.
TargetHeight ==
  LET d == locals.targetSpec.targetDims
  IN OrElse(d, "height", OrElse(d, "thickness", OrElse(d, "depth", 0)))

TargetWidth ==
  LET d == locals.targetSpec.targetDims
  IN OrElse(d, "width", OrElse(d, "diameter", 0))

\* The bounding box measures w by w by h, in some order of its extents.
BoxRealisesTarget ==
  /\ "dimensions" \notin metrics.missing
  /\ SortDesc(metrics.dimensions)
       = SortDesc(<<TargetWidth * 1000, TargetWidth * 1000, TargetHeight * 1000>>)

\* C27: with measurements and a target ratio from a target height h > 0 and
\* a target width w > 0, a bounding box that measures w by w by h has the
\* proportions score 1.0, also when h < w.
C27_ExactBoxIsPerfect ==
  (/\ Scored /\ metrics.present /\ ~metrics.error
   /\ locals.targetSpec.hasHeightWidth
   /\ TargetHeight > 0 /\ TargetWidth > 0
   /\ BoxRealisesTarget) =>
    locals.specMatch.proportions = SCALE

\* The breakdown of the result has a note of the kind.
HasNote(tag) == \E i \in 1..Len(result.breakdown) : result.breakdown[i].tag = tag

\* C28: the invalid-topology note (x0.4) is in the breakdown iff the gate
\* factor applied to overall is 0.4, and the zero-volume note (x0.3) iff
\* it is 0.3; at most one of the two notes is there.
C28_GateNoteIsGateApplied ==
  Scored /\ result.outcome = "returned" =>
    /\ HasNote("BREP topology invalid (x0.4)") <=> locals.qualityGate = 4000
    /\ HasNote("Zero volume (x0.3)") <=> locals.qualityGate = 3000
    /\ ~(HasNote("BREP topology invalid (x0.4)") /\ HasNote("Zero volume (x0.3)"))

\* Every Quality and SpecMatch entry of the breakdown lists an issue.
NoEmptyEntry(breakdown) ==
  \A i \in 1..Len(breakdown) :
    breakdown[i].tag \in {"Quality: ", "SpecMatch: "} => breakdown[i].issues # <<>>

\* C29: a Quality entry of the breakdown (Quality.overall < 0.6) and a
\* SpecMatch entry (SpecMatch.overall < 0.6) each list at least one issue,
\* with measurements and without.
C29_EntriesHaveIssues ==
  /\ Scored => NoEmptyEntry(result.breakdown)
  /\ twin.kind # "none" => NoEmptyEntry(twin.result.breakdown)

\* The prompt names a design type of the class.
NamesClass(words) == includesAny(lowerOf(prompt), words)

GearClass == NamesClass({"gear", "disc", "plate", "washer", "flange"})

VaseClass == NamesClass({"vase", "bottle", "column", "tower"})

BracketClass == NamesClass({"bracket", "mount", "frame"})

\* The two largest extents of the bounding box are scored against a
\* design-type range: measurements with two extents, no target ratio.
RangeScored ==
  /\ Scored /\ metrics.present /\ ~metrics.error
  /\ "dimensions" \notin metrics.missing
  /\ ~locals.targetSpec.hasHeightWidth
  /\ Len(sortedDims(metrics.dimensions)) >= 2

MeasuredRatio ==
  LET sorted == sortedDims(metrics.dimensions) IN Div(sorted[1], sorted[2])

====
